---- MODULE Spec2Model ----
EXTENDS Integers, Sequences, FiniteSets, TLC

(***************************************************************************)
(* ESTIN internal-regulation RAG system.                                   *)
(*                                                                         *)
(* A text is a sequence of tokens; the text itself is the concatenation of *)
(* its tokens.  A token is a maximal piece of text that the regular        *)
(* expressions of the chunker cannot cut: a single space, a single         *)
(* newline, a run of digits, a punctuation sign, or a word.  The length of *)
(* a text in characters is the sum of the lengths of its tokens.           *)
(***************************************************************************)

VARIABLES
    documents,                  \* chunk_by_articles: the pages (page_content, page)
    include_section_context,    \* chunk_by_articles: the flag
    full_text,                  \* get_full_text(documents)
    parts,                      \* re.split(...) result
    i,                          \* loop index into parts (Python, 0-based)
    current_section,
    current_section_num,
    current_subsection,
    current_subsection_num,
    chunks,                     \* the list being returned
    pc,                         \* position in chunk_by_articles
    store,                      \* the documents held by the vector store
    request,                    \* ask_question: the QuestionRequest
    thread_id,                  \* ask_question: thread_id
    config,                     \* invoke_agent: config["configurable"]["thread_id"]
    exception,                  \* ask_question: the exception e, <<>> when none
    messages,                   \* the agent's message list (result["messages"])
    response,                   \* what ask_question returned or raised
    apc,                        \* position in ask_question
    existing,                   \* Pinecone: the names of the indexes
    vectors,                    \* Pinecone: the vectors of each index
    log,                        \* what the vector-store module printed
    create_calls,               \* pc.create_index calls, per index name
    delete_calls,               \* pc.delete_index calls, per index name
    _vector_store,              \* api/dependencies.py: the module global
    _agent,                     \* api/dependencies.py: the module global
    rpc,                        \* position of each request's handler
    agent,                      \* ask_question: the local of each request
    running,                    \* the handlers that have started and not ended
    load_calls,                 \* calls of load_vector_store
    agent_calls,                \* calls of create_estin_agent
    bpc,                        \* position in scripts/build_index.py
    reset,                      \* build_index: the --reset argument
    pdf_exists,                 \* build_index: pdf_path.exists()
    out,                        \* what the build command printed
    error,                      \* the step whose exception the command caught
    exit_code,                  \* <<status>> once the build command has exited
    vector_store,               \* build_index: what create_vector_store returned
    served                      \* <<vectors>> of the index the API has loaded

chunkVars == <<documents, include_section_context, full_text, parts, i,
               current_section, current_section_num, current_subsection,
               current_subsection_num, chunks, pc>>

answerVars == <<store, request, thread_id, config, exception, messages,
               response, apc>>

indexVars == <<existing, vectors, log, create_calls, delete_calls>>

lazyVars == <<_vector_store, _agent, rpc, agent, running, load_calls,
              agent_calls>>

buildVars == <<bpc, reset, pdf_exists, out, error, exit_code, vector_store,
               served>>

vars == <<chunkVars, answerVars, indexVars, lazyVars, buildVars>>

-----------------------------------------------------------------------------
(* Bounds of the checked inputs *)

\* lines and page breaks of a document
MaxItems == 3

\* retrieval steps of one invocation of the agent
MaxToolCalls == 2

\* operations on the Pinecone client
MaxOps == 4

\* requests in flight at the same time
MaxRequests == 3

\* lines of a document made of subsection headers and articles only
MaxLines == 4

-----------------------------------------------------------------------------
(* Tokens and character classes *)

SP == " "
NL == "\n"

\* \d+ : the digit runs that occur in the checked texts
DigitTokens == {"1", "2", "3", "4", "5", "6", "7", "12"}

\* [A-ZÉÈÀ]+ : words of two or more capitals
CapsTokens == {"DISPOSITIONS", "GENERALES", "REGIME", "DISCIPLINAIRE"}

\* \s
IsSpace(t) == t \in {SP, NL}

RECURSIVE TextLen(_)
TextLen(text) ==
    IF text = <<>> THEN 0 ELSE Len(Head(text)) + TextLen(Tail(text))

\* first index >= p whose token is not a blank (Len+1 when none): [ ]*
RECURSIVE SkipBlanks(_, _)
SkipBlanks(text, p) ==
    IF p <= Len(text) /\ text[p] = SP THEN SkipBlanks(text, p + 1) ELSE p

\* first index >= p whose token is not whitespace (Len+1 when none): \s*
RECURSIVE SkipWs(_, _)
SkipWs(text, p) ==
    IF p <= Len(text) /\ IsSpace(text[p]) THEN SkipWs(text, p + 1) ELSE p

\* last index <= p whose token is not whitespace (0 when none)
RECURSIVE SkipWsBack(_, _)
SkipWsBack(text, p) ==
    IF p >= 1 /\ IsSpace(text[p]) THEN SkipWsBack(text, p - 1) ELSE p

\* str.strip()
Strip(text) ==
    LET a == SkipWs(text, 1)
        b == SkipWsBack(text, Len(text))
    IN  IF a > b THEN <<>> ELSE SubSeq(text, a, b)

\* ^ under re.MULTILINE
AtLineStart(text, p) == p = 1 \/ text[p - 1] = NL

\* $ under re.MULTILINE, after the token at index e
AtLineEnd(text, e) == e = Len(text) \/ text[e + 1] = NL

-----------------------------------------------------------------------------
(* loaders.get_full_text *)

PageToken(n) == <<"1", "2", "3", "4", "5", "6", "7">>[n]

RECURSIVE JoinPages(_)
JoinPages(docs) ==
    IF docs = <<>> THEN <<>>
    ELSE <<NL, NL, "[PAGE", SP, PageToken(Head(docs).page), "]", NL, NL>>
            \o Head(docs).page_content \o JoinPages(Tail(docs))

get_full_text(docs) == Strip(JoinPages(docs))

-----------------------------------------------------------------------------
(* The three patterns of _parse_document_structure *)

\* the split pattern compiled with re.IGNORECASE
IsArticleWordAnyCase(t) == t \in {"Article", "article"}

\* the literal "Article" of the split pattern (case-sensitive)
IsArticleWord(t) == t = "Article"

\* (^[ ]*Article\s+\d+\s*:?) tried at index p: the index of the last token
\* of the match, 0 when there is none
MarkerEnd(text, p) ==
    LET a  == SkipBlanks(text, p)
        w  == SkipWs(text, a + 1)
        w2 == SkipWs(text, w + 1)
    IN  IF /\ AtLineStart(text, p)
           /\ a <= Len(text) /\ IsArticleWord(text[a])
           /\ w > a + 1
           /\ w <= Len(text) /\ text[w] \in DigitTokens
        THEN IF w2 <= Len(text) /\ text[w2] = ":" THEN w2 ELSE w2 - 1
        ELSE 0

\* re.split with one capturing group: text before, match, text between, ...
RECURSIVE SplitFrom(_, _, _)
SplitFrom(text, s, p) ==
    IF p > Len(text) THEN << SubSeq(text, s, Len(text)) >>
    ELSE LET e == MarkerEnd(text, p)
         IN  IF e > 0
             THEN << SubSeq(text, s, p - 1), SubSeq(text, p, e) >>
                     \o SplitFrom(text, e + 1, e + 1)
             ELSE SplitFrom(text, s, p + 1)

RegexSplit(text) == SplitFrom(text, 1, 1)

\* first index >= p whose token is neither a capital word nor whitespace
RECURSIVE SkipCapsWs(_, _)
SkipCapsWs(text, p) ==
    IF p <= Len(text) /\ (text[p] \in CapsTokens \/ IsSpace(text[p]))
    THEN SkipCapsWs(text, p + 1) ELSE p

\* ^(\d+)\s+([A-ZÉÈÀ][A-ZÉÈÀ\s]+)$ tried at index p:
\* [end, num, title] of the match, end = 0 when there is none.  The greedy
\* title gives tokens back until $ holds.
SectionMatch(text, p) ==
    LET q    == SkipWs(text, p + 1)
        r    == SkipCapsWs(text, q) - 1
        ends == {e \in q..r : AtLineEnd(text, e)}
        e    == CHOOSE x \in ends : \A y \in ends : y <= x
    IN  IF /\ AtLineStart(text, p)
           /\ text[p] \in DigitTokens
           /\ q > p + 1
           /\ q <= Len(text) /\ text[q] \in CapsTokens
           /\ ends # {}
        THEN [end |-> e, num |-> <<text[p]>>, title |-> SubSeq(text, q, e)]
        ELSE [end |-> 0, num |-> <<>>, title |-> <<>>]

\* end of the line that holds index s: .+ from s
RECURSIVE LineEnd(_, _)
LineEnd(text, s) ==
    IF s < Len(text) /\ text[s + 1] # NL THEN LineEnd(text, s + 1) ELSE s

\* ^(\d+\.\d+)\s+(.+)$ tried at index p.  The greedy \s+ gives tokens back
\* until .+ finds a character that is not a newline.
SubsectionMatch(text, p) ==
    LET r      == SkipWs(text, p + 3)
        starts == {s \in (p + 4)..r : s <= Len(text) /\ text[s] # NL}
        s      == CHOOSE x \in starts : \A y \in starts : y <= x
    IN  IF /\ AtLineStart(text, p)
           /\ p + 2 <= Len(text)
           /\ text[p] \in DigitTokens /\ text[p + 1] = "."
           /\ text[p + 2] \in DigitTokens
           /\ starts # {}
        THEN [end |-> LineEnd(text, s),
              num |-> SubSeq(text, p, p + 2),
              title |-> SubSeq(text, s, LineEnd(text, s))]
        ELSE [end |-> 0, num |-> <<>>, title |-> <<>>]

\* for match in section_pattern.finditer(segment): the (num, title) left by
\* the last match, cur when there is none
RECURSIVE ScanSections(_, _, _)
ScanSections(text, p, cur) ==
    IF p > Len(text) THEN cur
    ELSE LET m == SectionMatch(text, p)
         IN  IF m.end > 0
             THEN ScanSections(text, m.end + 1,
                               [num |-> m.num, title |-> Strip(m.title)])
             ELSE ScanSections(text, p + 1, cur)

RECURSIVE ScanSubsections(_, _, _)
ScanSubsections(text, p, cur) ==
    IF p > Len(text) THEN cur
    ELSE LET m == SubsectionMatch(text, p)
         IN  IF m.end > 0
             THEN ScanSubsections(text, m.end + 1,
                                  [num |-> m.num, title |-> Strip(m.title)])
             ELSE ScanSubsections(text, p + 1, cur)

-----------------------------------------------------------------------------
(* _build_context_header *)

SectionLine(section_num, section_title) ==
    <<"[Section", SP>> \o section_num \o <<":", SP>> \o section_title \o <<"]">>

SubsectionLine(subsection_num, subsection_title) ==
    <<"[Sous-section", SP>> \o subsection_num \o <<":", SP>>
        \o subsection_title \o <<"]">>

HasSectionLine(section_num, section_title) ==
    section_num # <<>> /\ section_title # <<>>

\* `or` in place of `and`
HasSubsectionLineEither(subsection_num, subsection_title) ==
    subsection_num # <<>> \/ subsection_title # <<>>

HasSubsectionLine(subsection_num, subsection_title) ==
    subsection_num # <<>> /\ subsection_title # <<>>

_build_context_header(section_num, section_title, subsection_num, subsection_title) ==
    LET a == IF HasSectionLine(section_num, section_title)
             THEN << SectionLine(section_num, section_title) >> ELSE <<>>
        b == IF HasSubsectionLine(subsection_num, subsection_title)
             THEN << SubsectionLine(subsection_num, subsection_title) >> ELSE <<>>
        lines == a \o b
    IN  IF Len(lines) = 2 THEN lines[1] \o <<NL>> \o lines[2]
        ELSE IF Len(lines) = 1 THEN lines[1] ELSE <<>>

-----------------------------------------------------------------------------
(* _clean_text *)

\* first index >= p whose token is not a digit run
RECURSIVE SkipDigits(_, _)
SkipDigits(text, p) ==
    IF p <= Len(text) /\ text[p] \in DigitTokens THEN SkipDigits(text, p + 1) ELSE p

\* re.sub(r'\[PAGE \d+\]', '', text)
RECURSIVE RemovePageMarkers(_)
RemovePageMarkers(text) ==
    IF text = <<>> THEN <<>>
    ELSE LET d == SkipDigits(text, 3)
         IN  IF /\ Len(text) >= 4
                /\ text[1] = "[PAGE" /\ text[2] = SP
                /\ d > 3 /\ d <= Len(text) /\ text[d] = "]"
             THEN RemovePageMarkers(SubSeq(text, d + 1, Len(text)))
             ELSE <<Head(text)>> \o RemovePageMarkers(Tail(text))

\* first index >= p whose token is not t
RECURSIVE SkipToken(_, _, _)
SkipToken(text, p, t) ==
    IF p <= Len(text) /\ text[p] = t THEN SkipToken(text, p + 1, t) ELSE p

\* re.sub of a run of at least `least` tokens t by `keep` of them
RECURSIVE CollapseRuns(_, _, _, _)
CollapseRuns(text, t, least, keep) ==
    IF text = <<>> THEN <<>>
    ELSE LET n == SkipToken(text, 1, t) - 1
         IN  IF n >= least
             THEN [k \in 1..keep |-> t]
                     \o CollapseRuns(SubSeq(text, n + 1, Len(text)), t, least, keep)
             ELSE <<Head(text)>> \o CollapseRuns(Tail(text), t, least, keep)

\* re.sub(r'^\d+$', '', text, flags=re.MULTILINE)
RECURSIVE RemoveDigitLines(_, _)
RemoveDigitLines(text, p) ==
    IF p > Len(text) THEN text
    ELSE LET d == SkipDigits(text, p)
         IN  IF AtLineStart(text, p) /\ d > p /\ AtLineEnd(text, d - 1)
             THEN RemoveDigitLines(SubSeq(text, 1, p - 1)
                                      \o SubSeq(text, d, Len(text)), p)
             ELSE RemoveDigitLines(text, p + 1)

_clean_text(text) ==
    Strip(RemoveDigitLines(
            CollapseRuns(CollapseRuns(RemovePageMarkers(text), NL, 3, 2), SP, 2, 1),
            1))

-----------------------------------------------------------------------------
(* _parse_document_structure: the body of the while loop *)

\* int(article_num) for the digit runs of the checked texts
IntOf(t) ==
    CASE t = "1" -> 1 [] t = "2" -> 2 [] t = "3" -> 3 [] t = "4" -> 4
      [] t = "5" -> 5 [] t = "6" -> 6 [] t = "7" -> 7 [] t = "12" -> 12

\* article_header.strip().startswith('Article')
StartsWithArticle(article_header) ==
    Strip(article_header) # <<>> /\ Strip(article_header)[1] = "Article"

\* re.match(r'Article\s+(\d+)', article_header), then
\* int(article_num) if article_num.isdigit() else article_num.
\* <<"int", n>> is the integer n, <<"str", "?">> the string "?".
ArticleNumber(article_header) ==
    LET w == SkipWs(article_header, 2)
    IN  IF /\ Len(article_header) >= 3
           /\ article_header[1] = "Article"
           /\ w > 2 /\ w <= Len(article_header)
           /\ article_header[w] \in DigitTokens
        THEN <<"int", IntOf(article_header[w])>>
        ELSE <<"str", "?">>

NoContext == [num |-> <<>>, title |-> <<>>]

\* a context that is never overridden once set (first header wins)
UpdateSectionOnce(cur, segment) ==
    IF cur # NoContext THEN cur ELSE ScanSections(segment, 1, cur)

UpdateSection(cur, segment) == ScanSections(segment, 1, cur)

UpdateSubsection(cur, segment) == ScanSubsections(segment, 1, cur)

\* chunk_content before cleaning
ComposeContent(incl, sec, sub, article_header, article_body) ==
    IF incl
    THEN _build_context_header(sec.num, sec.title, sub.num, sub.title)
            \o <<NL, NL>> \o Strip(article_header) \o Strip(article_body)
    ELSE Strip(article_header) \o Strip(article_body)

ChunkContent(incl, sec, sub, article_header, article_body) ==
    _clean_text(ComposeContent(incl, sec, sub, article_header, article_body))

MinContentLen == 50

\* a filter that only drops empty content
KeepChunkNonEmpty(chunk_content) == TextLen(Strip(chunk_content)) > 0

\* if len(chunk_content.strip()) > 50
KeepChunk(chunk_content) == TextLen(Strip(chunk_content)) > MinContentLen

\* chunks.insert(0, ...) in place of chunks.append(...)
PrependChunk(list, doc) == <<doc>> \o list

AppendChunk(list, doc) == Append(list, doc)

\* the loop body with the length check before the scan of the body: a
\* dropped article leaves the context as it was
LoopStepCheckFirst(p, incl, base, s) ==
    IF ~(s.i + 1 < Len(p)) THEN [s EXCEPT !.i = s.i + 2]
    ELSE
    LET article_header == p[s.i + 1]
        article_body   == p[s.i + 2]
        sec     == UpdateSection(s.sec, article_body)
        sub     == UpdateSubsection(s.sub, article_body)
        content == ChunkContent(incl, sec, sub, article_header, article_body)
        doc     == [page_content      |-> content,
                    page              |-> base.page,
                    article_number    |-> ArticleNumber(article_header),
                    section_number    |-> sec.num,
                    section_title     |-> sec.title,
                    subsection_number |-> sub.num,
                    subsection_title  |-> sub.title]
    IN  IF ~StartsWithArticle(article_header) \/ ~KeepChunk(content)
        THEN [s EXCEPT !.i = s.i + 2]
        ELSE [i |-> s.i + 2, sec |-> sec, sub |-> sub,
              chunks |-> AppendChunk(s.chunks, doc)]

\* One pass through the body of `while i < len(parts)`.  s holds the locals
\* i, sec, sub (current section / subsection) and chunks; p is parts, with
\* Python's parts[k] at p[k + 1].
LoopStep(p, incl, base, s) ==
    IF ~(s.i + 1 < Len(p)) THEN [s EXCEPT !.i = s.i + 2]
    ELSE
    LET article_header == p[s.i + 1]
        article_body   == p[s.i + 2]
        sec     == UpdateSection(s.sec, article_body)
        sub     == UpdateSubsection(s.sub, article_body)
        content == ChunkContent(incl, sec, sub, article_header, article_body)
        doc     == [page_content      |-> content,
                    page              |-> base.page,
                    article_number    |-> ArticleNumber(article_header),
                    section_number    |-> sec.num,
                    section_title     |-> sec.title,
                    subsection_number |-> sub.num,
                    subsection_title  |-> sub.title]
    IN  IF ~StartsWithArticle(article_header)
        THEN [s EXCEPT !.i = s.i + 2]
        ELSE [i |-> s.i + 2, sec |-> sec, sub |-> sub,
              chunks |-> IF KeepChunk(content)
                         THEN AppendChunk(s.chunks, doc) ELSE s.chunks]

\* The locals when the loop is entered: the context of the text before the
\* first article, i = 1, no chunk yet.
LoopEntry(p) ==
    [i      |-> 1,
     sec    |-> UpdateSection(NoContext, p[1]),
     sub    |-> UpdateSubsection(NoContext, p[1]),
     chunks |-> <<>>]

RECURSIVE RunLoop(_, _, _, _)
RunLoop(p, incl, base, s) ==
    IF s.i < Len(p) THEN RunLoop(p, incl, base, LoopStep(p, incl, base, s))
    ELSE s.chunks

_parse_document_structure(text, base, incl) ==
    LET p == RegexSplit(text)
    IN  RunLoop(p, incl, base, LoopEntry(p))

-----------------------------------------------------------------------------
(* The checked inputs of chunk_by_articles: pages made of these lines *)

SEC5 == <<"5", SP, "DISPOSITIONS", SP, "GENERALES">>
SEC6 == <<"6", SP, "REGIME", SP, "DISCIPLINAIRE">>
SUB  == <<"5", ".", "1", SP, "Obligations", SP, "des", SP, "etudiants">>
\* a subsection number followed by two blanks and no title
SUBX == <<"6", ".", "2", SP, SP>>
\* an article of two lines; the second line starts with a lowercase "article"
LONG == <<"Article", SP, "1", ":", SP, "Les", SP, "etudiants", SP, "respectent",
          SP, "le", SP, "reglement,", SP, "voir", SP, "l'", "article", SP, "5",
          SP, "ci-dessus", NL,
          "article", SP, "7", SP, "reste", SP, "applicable">>
SHORT == <<"Article", SP, "3", ":", SP, "Texte", SP, "court.">>
BARE  == <<"Article", SP, "12", ":">>
PageBreak == <<"<page break>">>

Palette == {SEC5, SEC6, SUB, SUBX, LONG, SHORT, BARE, PageBreak}

ItemSeqs == UNION {[1..n -> Palette] : n \in 1..MaxItems}

\* the page contents: the lines between two page breaks, joined by newlines
RECURSIVE PageTexts(_, _)
PageTexts(items, cur) ==
    IF items = <<>> THEN <<cur>>
    ELSE IF Head(items) = PageBreak
         THEN <<cur>> \o PageTexts(Tail(items), <<>>)
         ELSE PageTexts(Tail(items),
                        IF cur = <<>> THEN Head(items)
                        ELSE cur \o <<NL>> \o Head(items))

\* load_estin_regulations numbers the pages it keeps from 2
DocumentsOf(items) ==
    LET texts == PageTexts(items, <<>>)
    IN  [k \in 1..Len(texts) |-> [page_content |-> texts[k], page |-> k + 1]]

\* an article whose marker is indented by two blanks
INDENT == <<SP, SP, "Article", SP, "4", ":", SP, "Les", SP, "etudiants", SP,
            "assistent", SP, "aux", SP, "cours", SP, "et", SP, "aux", SP,
            "travaux", SP, "diriges">>
\* the top of a page: its number alone on a line, then the text that goes on
PAGETOP == <<"12", NL, "suite", SP, "du", SP, "texte", SP, "de", SP, "l'",
             "article">>

LayoutPalette == {LONG, INDENT, PAGETOP, SEC5, PageBreak}

LayoutSeqs == UNION {[1..n -> LayoutPalette] : n \in 1..MaxItems}

\* subsection headers, with and without title, between articles
ContextPalette == {SUB, SUBX, SHORT, BARE}

ContextSeqs == UNION {[1..n -> ContextPalette] : n \in 1..MaxLines}

-----------------------------------------------------------------------------
(* chunk_by_articles as a state machine *)

ChunkInit ==
    /\ \E items \in ItemSeqs : documents = DocumentsOf(items)
    /\ include_section_context \in BOOLEAN
    /\ full_text = <<>>
    /\ parts = <<>>
    /\ i = 0
    /\ current_section = <<>>
    /\ current_section_num = <<>>
    /\ current_subsection = <<>>
    /\ current_subsection_num = <<>>
    /\ chunks = <<>>
    /\ pc = "start"

\* the same call on pages as a PDF extractor lays them out
LayoutInit ==
    /\ \E items \in LayoutSeqs : documents = DocumentsOf(items)
    /\ include_section_context \in BOOLEAN
    /\ full_text = <<>>
    /\ parts = <<>>
    /\ i = 0
    /\ current_section = <<>>
    /\ current_section_num = <<>>
    /\ current_subsection = <<>>
    /\ current_subsection_num = <<>>
    /\ chunks = <<>>
    /\ pc = "start"

\* the same call on one page of subsection headers and articles
ContextInit ==
    /\ \E items \in ContextSeqs : documents = DocumentsOf(items)
    /\ include_section_context \in BOOLEAN
    /\ full_text = <<>>
    /\ parts = <<>>
    /\ i = 0
    /\ current_section = <<>>
    /\ current_section_num = <<>>
    /\ current_subsection = <<>>
    /\ current_subsection_num = <<>>
    /\ chunks = <<>>
    /\ pc = "start"

\* source_metadata = documents[0].metadata
BaseMetadata == [page |-> documents[1].page]

\* chunk_by_articles up to the while loop
EnterLoop ==
    /\ pc = "start"
    /\ full_text' = get_full_text(documents)
    /\ parts' = RegexSplit(full_text')
    /\ LET s == LoopEntry(parts')
       IN  /\ i' = s.i
           /\ current_section_num' = s.sec.num
           /\ current_section' = s.sec.title
           /\ current_subsection_num' = s.sub.num
           /\ current_subsection' = s.sub.title
           /\ chunks' = s.chunks
    /\ pc' = "loop"
    /\ UNCHANGED <<documents, include_section_context>>

Locals ==
    [i      |-> i,
     sec    |-> [num |-> current_section_num, title |-> current_section],
     sub    |-> [num |-> current_subsection_num, title |-> current_subsection],
     chunks |-> chunks]

\* one iteration of the while loop
ProcessArticle ==
    /\ pc = "loop"
    /\ i < Len(parts)
    /\ LET s == LoopStep(parts, include_section_context, BaseMetadata, Locals)
       IN  /\ i' = s.i
           /\ current_section_num' = s.sec.num
           /\ current_section' = s.sec.title
           /\ current_subsection_num' = s.sub.num
           /\ current_subsection' = s.sub.title
           /\ chunks' = s.chunks
    /\ UNCHANGED <<documents, include_section_context, full_text, parts, pc>>

\* return chunks
ReturnChunks ==
    /\ pc = "loop"
    /\ ~(i < Len(parts))
    /\ pc' = "done"
    /\ UNCHANGED <<documents, include_section_context, full_text, parts, i,
                   current_section, current_section_num, current_subsection,
                   current_subsection_num, chunks>>

ChunkNext == EnterLoop \/ ProcessArticle \/ ReturnChunks

\* chunk_by_articles is not running
ChunkIdle ==
    /\ documents = <<>>
    /\ include_section_context = TRUE
    /\ full_text = <<>>
    /\ parts = <<>>
    /\ i = 0
    /\ current_section = <<>>
    /\ current_section_num = <<>>
    /\ current_subsection = <<>>
    /\ current_subsection_num = <<>>
    /\ chunks = <<>>
    /\ pc = "idle"

-----------------------------------------------------------------------------
(* The question-answering endpoint: api/main.py, rag/agent.py, rag/tools.py *)

NoValue == "None"

\* create_estin_agent(..., k: int = 2), the k of get_agent_instance's agent
RetrievalK == 2

\* doc.page_content[:500]
PreviewLen == 500

\* len("...")
EllipsisLen == 3

\* The documents an index can hold: id stands for the page content, len is
\* its length in characters.
StoreDocs ==
    { [id |-> "c1", len |-> 620, article_number |-> <<"int", 1>>],
      [id |-> "c2", len |-> 120, article_number |-> <<"int", 2>>],
      [id |-> "c3", len |-> 500, article_number |-> <<"str", "?">>] }

Min(a, b) == IF a <= b THEN a ELSE b

\* vector_store.similarity_search(query, k=k): the k nearest documents of the
\* store, fewer when the store holds fewer, in the provider's ranking
Rankings(docs, k) ==
    { r \in [1..Min(k, Cardinality(docs)) -> docs] :
        \A a, b \in DOMAIN r : a # b => r[a] # r[b] }

\* SourceDocument(content=..., article_number=...)
SourceDocument(doc) ==
    [id             |-> doc.id,
     content_len    |-> IF doc.len > PreviewLen
                        THEN PreviewLen + EllipsisLen ELSE doc.len,
     article_number |-> doc.article_number]

\* hasattr(msg, 'artifact') and msg.artifact
HasArtifact(msg) == msg.type = "tool" /\ msg.artifact # <<>>

ArtifactSources(artifact) ==
    [r \in 1..Len(artifact) |-> SourceDocument(artifact[r])]

\* only messages[-1] is looked at
ExtractSourcesLastOnly(msgs) ==
    IF msgs # <<>> /\ HasArtifact(msgs[Len(msgs)])
    THEN ArtifactSources(msgs[Len(msgs)].artifact) ELSE <<>>

\* a document already in sources is skipped
RECURSIVE AppendNew(_, _)
AppendNew(sources, more) ==
    IF more = <<>> THEN sources
    ELSE AppendNew(IF \E k \in 1..Len(sources) : sources[k] = Head(more)
                   THEN sources ELSE Append(sources, Head(more)),
                   Tail(more))

RECURSIVE ExtractSourcesFrom(_, _)
ExtractSourcesFrom(msgs, sources) ==
    IF msgs = <<>> THEN sources
    ELSE ExtractSourcesFrom(Tail(msgs),
            IF HasArtifact(Head(msgs))
            THEN AppendNew(sources, ArtifactSources(Head(msgs).artifact))
            ELSE sources)

ExtractSourcesUnique(msgs) == ExtractSourcesFrom(msgs, <<>>)

\* _extract_sources(result)
RECURSIVE _extract_sources(_)
_extract_sources(msgs) ==
    IF msgs = <<>> THEN <<>>
    ELSE (IF HasArtifact(Head(msgs))
          THEN ArtifactSources(Head(msgs).artifact) ELSE <<>>)
            \o _extract_sources(Tail(msgs))

\* get_last_message(result)
get_last_message(msgs) ==
    IF msgs # <<>> THEN msgs[Len(msgs)].content ELSE ""

ToolMessages(msgs) == {k \in 1..Len(msgs) : msgs[k].type = "tool"}

AnswerInit ==
    /\ store \in SUBSET StoreDocs
    /\ request = NoValue
    /\ thread_id = NoValue
    /\ config = NoValue
    /\ exception = <<>>
    /\ messages = <<>>
    /\ response = NoValue
    /\ apc = "idle"

\* str(uuid4())
Uuids == {"uuid-1", "uuid-2"}

\* a new identifier for every request, whatever the request holds
ThreadIdAlwaysNew(req, uuid) == uuid

\* request.thread_id or str(uuid4()): None and "" are both false
ThreadIdOf(req, uuid) ==
    IF req.thread_id # NoValue /\ req.thread_id # ""
    THEN req.thread_id
    ELSE uuid

\* ask_question: thread_id = request.thread_id or str(uuid4())
ReceiveQuestion(req) ==
    /\ apc = "idle"
    /\ request' = req
    /\ \E uuid \in Uuids : thread_id' = ThreadIdOf(req, uuid)
    /\ apc' = "agent"
    /\ UNCHANGED <<store, config, exception, messages, response>>

\* agent = get_agent_instance(); invoke_agent(agent, request.question,
\* thread_id=thread_id) up to agent.invoke: the agent starts from the user's
\* message under the thread of the config
invoke_agent ==
    /\ apc = "agent"
    /\ config' = thread_id
    /\ messages' = << [type |-> "human", content |-> request.question] >>
    /\ apc' = "model"
    /\ UNCHANGED <<store, request, thread_id, exception, response>>

\* the language model asks for the retrieval tool
ModelCallsTool ==
    /\ apc = "model"
    /\ Cardinality(ToolMessages(messages)) < MaxToolCalls
    /\ messages' = Append(messages,
                          [type |-> "ai", content |-> "", tool_call |-> "query"])
    /\ apc' = "tool"
    /\ UNCHANGED <<store, request, thread_id, config, exception, response>>

\* retrieve_estin_regulations: the formatted text goes to the model, the raw
\* documents are the artifact of the tool message
RetrieveRegulations ==
    /\ apc = "tool"
    /\ \E retrieved_docs \in Rankings(store, RetrievalK) :
          messages' = Append(messages,
                             [type |-> "tool",
                              content |-> <<Len(retrieved_docs), "articles">>,
                              artifact |-> retrieved_docs])
    /\ apc' = "model"
    /\ UNCHANGED <<store, request, thread_id, config, exception, response>>

\* the language model writes its final message; agent.invoke returns
ModelAnswers ==
    /\ apc = "model"
    /\ messages' = Append(messages,
                          [type |-> "ai", content |-> "answer",
                           tool_call |-> NoValue])
    /\ apc' = "invoked"
    /\ UNCHANGED <<store, request, thread_id, config, exception, response>>

\* a statement of the try block raises: get_agent_instance, a call of the
\* agent to the language model or to the vector store, get_last_message or
\* _extract_sources, the validation of AnswerResponse
CallFails ==
    /\ apc \in {"agent", "model", "tool", "invoked"}
    /\ exception' = <<"error in", apc>>
    /\ apc' = "raised"
    /\ UNCHANGED <<store, request, thread_id, config, messages, response>>

\* the exception is swallowed and what there is of the answer is returned
HandleExceptionPartial ==
    /\ apc = "raised"
    /\ response' = [status    |-> 200,
                    answer    |-> get_last_message(messages),
                    thread_id |-> thread_id,
                    sources   |-> <<>>]
    /\ apc' = "responded"
    /\ UNCHANGED <<store, request, thread_id, config, exception, messages>>

\* except Exception as e: raise HTTPException(status_code=500,
\* detail=f"Erreur lors du traitement de la question: {str(e)}")
HandleException ==
    /\ apc = "raised"
    /\ response' = [status |-> 500,
                    detail |-> <<"Erreur lors du traitement de la question",
                                 exception>>]
    /\ apc' = "responded"
    /\ UNCHANGED <<store, request, thread_id, config, exception, messages>>

\* ask_question after invoke_agent: the AnswerResponse
ReturnAnswer ==
    /\ apc = "invoked"
    /\ response' = [status    |-> 200,
                    answer    |-> get_last_message(messages),
                    thread_id |-> thread_id,
                    sources   |-> _extract_sources(messages)]
    /\ apc' = "responded"
    /\ UNCHANGED <<store, request, thread_id, config, exception, messages>>

\* QuestionRequest: thread_id is Optional[str], of any length
Requests ==
    [question : {"question"}, thread_id : {NoValue, "", "thread-1"}]

AnswerNext ==
    \/ \E req \in Requests : ReceiveQuestion(req)
    \/ invoke_agent
    \/ ModelCallsTool
    \/ RetrieveRegulations
    \/ ModelAnswers
    \/ CallFails
    \/ HandleException
    \/ ReturnAnswer

\* no request is being handled
AnswerIdle ==
    /\ store = {}
    /\ request = NoValue
    /\ thread_id = NoValue
    /\ config = NoValue
    /\ exception = <<>>
    /\ messages = <<>>
    /\ response = NoValue
    /\ apc = "off"

-----------------------------------------------------------------------------
(* The Pinecone indexes: vectorstore/store.py *)

IndexNames == {"estin-regulations", "other-index"}

VectorIds == {"v1", "v2"}

IndexInit ==
    /\ existing = {}
    /\ vectors = [n \in IndexNames |-> {}]
    /\ log = <<>>
    /\ create_calls = [n \in IndexNames |-> 0]
    /\ delete_calls = [n \in IndexNames |-> 0]

\* pc.create_index(name=index_name, ...); Pinecone refuses a name in use
PineconeCreateIndex(index_name) ==
    /\ create_calls' = [create_calls EXCEPT ![index_name] = @ + 1]
    /\ IF index_name \notin existing
       THEN /\ existing' = existing \cup {index_name}
            /\ vectors' = [vectors EXCEPT ![index_name] = {}]
            /\ log' = Append(log, <<"created", index_name>>)
       ELSE /\ log' = Append(log, <<"create raised", index_name>>)
            /\ UNCHANGED <<existing, vectors>>

\* pc.create_index is called without looking at pc.list_indexes()
CreateIndexAlways(index_name) ==
    /\ Len(log) < MaxOps
    /\ PineconeCreateIndex(index_name)
    /\ UNCHANGED delete_calls

\* create_index_if_not_exists(pc, index_name)
create_index_if_not_exists(index_name) ==
    /\ Len(log) < MaxOps
    /\ IF index_name \notin existing
       THEN /\ PineconeCreateIndex(index_name)
            /\ UNCHANGED delete_calls
       ELSE /\ log' = Append(log, <<"already exists", index_name>>)
            /\ UNCHANGED <<existing, vectors, create_calls, delete_calls>>

\* PineconeVectorStore.from_documents(documents, embedding, index_name) in
\* create_vector_store: the documents' vectors are added to the index
from_documents(index_name, ids) ==
    /\ Len(log) < MaxOps
    /\ IF index_name \in existing
       THEN /\ vectors' = [vectors EXCEPT ![index_name] = @ \cup ids]
            /\ log' = Append(log, <<"vector store created", index_name>>)
       ELSE /\ log' = Append(log, <<"upsert raised", index_name>>)
            /\ UNCHANGED vectors
    /\ UNCHANGED <<existing, create_calls, delete_calls>>

\* delete_index(pinecone_api_key, index_name); pc.delete_index raises when
\* there is no such index
delete_index(index_name) ==
    /\ Len(log) < MaxOps
    /\ delete_calls' = [delete_calls EXCEPT ![index_name] = @ + 1]
    /\ IF index_name \in existing
       THEN /\ existing' = existing \ {index_name}
            /\ vectors' = [vectors EXCEPT ![index_name] = {}]
            /\ log' = Append(log, <<"deleted", index_name>>)
       ELSE /\ log' = Append(log, <<"delete raised", index_name>>)
            /\ UNCHANGED <<existing, vectors>>
    /\ UNCHANGED create_calls

IndexNext ==
    \/ \E n \in IndexNames : create_index_if_not_exists(n)
    \/ \E n \in IndexNames : \E ids \in SUBSET VectorIds \ {{}} :
          from_documents(n, ids)
    \/ \E n \in IndexNames : delete_index(n)

\* the Pinecone client is not used
IndexIdle ==
    /\ existing = {}
    /\ vectors = [n \in IndexNames |-> {}]
    /\ log = <<>>
    /\ create_calls = [n \in IndexNames |-> 0]
    /\ delete_calls = [n \in IndexNames |-> 0]

-----------------------------------------------------------------------------
(* The shared agent: api/dependencies.py, as used by api/main.py *)

Tasks == 1..MaxRequests

LazyInit ==
    /\ _vector_store = NoValue
    /\ _agent = NoValue
    /\ rpc = [r \in Tasks |-> "none"]
    /\ agent = [r \in Tasks |-> NoValue]
    /\ running = {}
    /\ load_calls = 0
    /\ agent_calls = 0

\* a handler that is not a coroutine starts in a worker thread at any time
WorkerThreadFree == TRUE

\* ask_question is "async def" and holds no await: the event loop runs its
\* body from the first statement to the return before it starts another task
EventLoopFree == running = {}

\* the server accepts a request and schedules its handler
Accept(r) ==
    /\ rpc[r] = "none"
    /\ rpc' = [rpc EXCEPT ![r] = "scheduled"]
    /\ UNCHANGED <<_vector_store, _agent, agent, running, load_calls,
                   agent_calls>>

\* the handler starts: ask_question up to the call of get_agent_instance
StartHandler(r) ==
    /\ rpc[r] = "scheduled"
    /\ EventLoopFree
    /\ running' = running \cup {r}
    /\ rpc' = [rpc EXCEPT ![r] = "get_agent"]
    /\ UNCHANGED <<_vector_store, _agent, agent, load_calls, agent_calls>>

\* get_agent_instance: if _agent is None
AgentIsNone(r) ==
    /\ rpc[r] = "get_agent"
    /\ r \in running
    /\ rpc' = [rpc EXCEPT ![r] = IF _agent = NoValue THEN "get_store"
                                                      ELSE "return_agent"]
    /\ UNCHANGED <<_vector_store, _agent, agent, running, load_calls,
                   agent_calls>>

\* get_vector_store_instance: if _vector_store is None
VectorStoreIsNone(r) ==
    /\ rpc[r] = "get_store"
    /\ r \in running
    /\ rpc' = [rpc EXCEPT ![r] = IF _vector_store = NoValue THEN "load"
                                                             ELSE "create"]
    /\ UNCHANGED <<_vector_store, _agent, agent, running, load_calls,
                   agent_calls>>

\* _vector_store = load_vector_store(...)
LoadVectorStore(r) ==
    /\ rpc[r] = "load"
    /\ r \in running
    /\ load_calls' = load_calls + 1
    /\ _vector_store' = <<"store", load_calls + 1>>
    /\ rpc' = [rpc EXCEPT ![r] = "create"]
    /\ UNCHANGED <<_agent, agent, running, agent_calls>>

\* _agent = create_estin_agent(..., vector_store=vector_store)
CreateAgent(r) ==
    /\ rpc[r] = "create"
    /\ r \in running
    /\ agent_calls' = agent_calls + 1
    /\ _agent' = <<"agent", agent_calls + 1>>
    /\ rpc' = [rpc EXCEPT ![r] = "return_agent"]
    /\ UNCHANGED <<_vector_store, agent, running, load_calls>>

\* return _agent; agent = get_agent_instance()
ReturnAgent(r) ==
    /\ rpc[r] = "return_agent"
    /\ r \in running
    /\ agent' = [agent EXCEPT ![r] = _agent]
    /\ rpc' = [rpc EXCEPT ![r] = "invoke"]
    /\ UNCHANGED <<_vector_store, _agent, running, load_calls, agent_calls>>

\* the rest of ask_question; the handler returns or raises and the event
\* loop takes the next task
FinishHandler(r) ==
    /\ rpc[r] = "invoke"
    /\ r \in running
    /\ rpc' = [rpc EXCEPT ![r] = "done"]
    /\ running' = running \ {r}
    /\ UNCHANGED <<_vector_store, _agent, agent, load_calls, agent_calls>>

LazyNext ==
    \E r \in Tasks :
        \/ Accept(r)
        \/ StartHandler(r)
        \/ AgentIsNone(r)
        \/ VectorStoreIsNone(r)
        \/ LoadVectorStore(r)
        \/ CreateAgent(r)
        \/ ReturnAgent(r)
        \/ FinishHandler(r)

\* the API serves no request
LazyIdle ==
    /\ _vector_store = NoValue
    /\ _agent = NoValue
    /\ rpc = [r \in Tasks |-> "off"]
    /\ agent = [r \in Tasks |-> NoValue]
    /\ running = {}
    /\ load_calls = 0
    /\ agent_calls = 0

-----------------------------------------------------------------------------
(* The index build command: scripts/build_index.py *)

\* settings.pinecone_index_name
IndexName == "estin-regulations"

\* the vectors of the chunks of this build, and one left by an earlier build
ChunkVectors == VectorIds

OldVectors == {"old"}

BuildInit ==
    /\ bpc = "start"
    /\ reset \in BOOLEAN
    /\ pdf_exists \in BOOLEAN
    /\ out = <<>>
    /\ error = NoValue
    /\ exit_code = <<>>
    /\ vector_store = NoValue
    /\ served = <<>>
    /\ existing \in {{}, {IndexName}}
    /\ \E old \in SUBSET OldVectors :
          /\ (existing = {} => old = {})
          /\ vectors = [n \in IndexNames |-> IF n = IndexName THEN old ELSE {}]
    /\ log = <<>>
    /\ create_calls = [n \in IndexNames |-> 0]
    /\ delete_calls = [n \in IndexNames |-> 0]

\* an exception leaves build_index
Raise(step) ==
    /\ error' = step
    /\ bpc' = "raised"

\* if not pdf_path.exists(): raise FileNotFoundError
PdfMissing ==
    /\ bpc = "start"
    /\ ~pdf_exists
    /\ Raise("source")
    /\ UNCHANGED <<reset, pdf_exists, out, exit_code, vector_store, served,
                   indexVars>>

\* Step 1: documents = load_estin_regulations(str(pdf_path))
LoadDocuments ==
    /\ bpc = "start"
    /\ pdf_exists
    /\ out' = Append(out, "Loaded pages")
    /\ bpc' = "chunk"
    /\ UNCHANGED <<reset, pdf_exists, error, exit_code, vector_store, served,
                   indexVars>>

\* Step 2: chunks = chunk_by_articles(documents, include_section_context=True)
ChunkDocuments ==
    /\ bpc = "chunk"
    /\ out' = Append(out, "Created article chunks")
    /\ bpc' = "embed"
    /\ UNCHANGED <<reset, pdf_exists, error, exit_code, vector_store, served,
                   indexVars>>

\* Step 4 is skipped without asking whether a reset was requested
StepAfterEmbeddingsAlwaysReset == "reset"

\* if reset: Step 4, else Step 5
StepAfterEmbeddings == IF reset THEN "reset" ELSE "create"

\* Step 3: embeddings = get_embeddings(api_key=settings.hf_api_key)
InitEmbeddings ==
    /\ bpc = "embed"
    /\ out' = Append(out, "Initialized embeddings model")
    /\ bpc' = StepAfterEmbeddings
    /\ UNCHANGED <<reset, pdf_exists, error, exit_code, vector_store, served,
                   indexVars>>

\* Step 4: delete_index(pinecone_api_key, index_name)
ResetIndex ==
    /\ bpc = "reset"
    /\ delete_index(IndexName)
    /\ IF IndexName \in existing
       THEN /\ bpc' = "create"
            /\ UNCHANGED error
       ELSE Raise("reset")
    /\ UNCHANGED <<reset, pdf_exists, out, exit_code, vector_store, served>>

\* Step 5, create_vector_store: create_index_if_not_exists(pc, index_name)
EnsureIndex ==
    /\ bpc = "create"
    /\ create_index_if_not_exists(IndexName)
    /\ bpc' = "populate"
    /\ UNCHANGED <<reset, pdf_exists, out, error, exit_code, vector_store,
                   served>>

\* Step 5, create_vector_store: from_documents returns and so does
\* create_vector_store
PopulateIndex ==
    /\ bpc = "populate"
    /\ from_documents(IndexName, ChunkVectors)
    /\ vector_store' = IndexName
    /\ bpc' = "report"
    /\ UNCHANGED <<reset, pdf_exists, out, error, exit_code, served>>

\* Step 5, create_vector_store: an embedding call of from_documents raises;
\* the batches embedded before it are already in the index
EmbeddingFails ==
    /\ bpc = "populate"
    /\ Len(log) < MaxOps
    /\ \E uploaded \in SUBSET ChunkVectors :
          /\ uploaded # ChunkVectors
          /\ vectors' = [vectors EXCEPT ![IndexName] = @ \cup uploaded]
    /\ log' = Append(log, <<"embedding raised", IndexName>>)
    /\ Raise("populate")
    /\ UNCHANGED <<reset, pdf_exists, out, exit_code, vector_store, served,
                   existing, create_calls, delete_calls>>

\* a call of Steps 1 to 5 raises before it has changed anything
StepFails ==
    /\ \/ bpc = "start" /\ pdf_exists /\ Raise("load")
       \/ bpc = "chunk" /\ Raise("chunk")
       \/ bpc = "embed" /\ Raise("embed")
       \/ bpc = "reset" /\ Raise("reset")
       \/ bpc = "create" /\ Raise("create")
    /\ UNCHANGED <<reset, pdf_exists, out, exit_code, vector_store, served,
                   indexVars>>

\* print("Index build completed successfully!"); return vector_store
ReportSuccess ==
    /\ bpc = "report"
    /\ out' = Append(out, "Index build completed successfully!")
    /\ bpc' = "returned"
    /\ UNCHANGED <<reset, pdf_exists, error, exit_code, vector_store, served,
                   indexVars>>

\* the script ends after build_index has returned
ExitAfterReturn ==
    /\ bpc = "returned"
    /\ exit_code' = <<0>>
    /\ bpc' = "exited"
    /\ UNCHANGED <<reset, pdf_exists, out, error, vector_store, served,
                   indexVars>>

\* the exception is printed and the script ends as if it had succeeded
HandleErrorExitZero ==
    /\ bpc = "raised"
    /\ out' = Append(out, "Error")
    /\ exit_code' = <<0>>
    /\ bpc' = "exited"
    /\ UNCHANGED <<reset, pdf_exists, error, vector_store, served, indexVars>>

\* except Exception as e: print(f"Error: {e}", file=sys.stderr); sys.exit(1)
HandleError ==
    /\ bpc = "raised"
    /\ out' = Append(out, "Error")
    /\ exit_code' = <<1>>
    /\ bpc' = "exited"
    /\ UNCHANGED <<reset, pdf_exists, error, vector_store, served, indexVars>>

\* the API, started after the build command has ended: load_vector_store
\* connects to the index of that name and returns a store on whatever the
\* index holds
load_vector_store ==
    /\ bpc = "exited"
    /\ served = <<>>
    /\ IndexName \in existing
    /\ served' = <<vectors[IndexName]>>
    /\ UNCHANGED <<bpc, reset, pdf_exists, out, error, exit_code,
                   vector_store, indexVars>>

BuildNext ==
    \/ PdfMissing
    \/ LoadDocuments
    \/ ChunkDocuments
    \/ InitEmbeddings
    \/ ResetIndex
    \/ EnsureIndex
    \/ PopulateIndex
    \/ EmbeddingFails
    \/ StepFails
    \/ ReportSuccess
    \/ ExitAfterReturn
    \/ HandleError
    \/ load_vector_store

\* the build command is not run
BuildIdle ==
    /\ bpc = "off"
    /\ reset = FALSE
    /\ pdf_exists = FALSE
    /\ out = <<>>
    /\ error = NoValue
    /\ exit_code = <<>>
    /\ vector_store = NoValue
    /\ served = <<>>

-----------------------------------------------------------------------------
(* Specifications *)

\* chunk_by_articles on one document
Init == ChunkInit /\ AnswerIdle /\ IndexIdle /\ LazyIdle /\ BuildIdle

Next == ChunkNext /\ UNCHANGED <<answerVars, indexVars, lazyVars, buildVars>>

Spec == Init /\ [][Next]_vars

\* one request to /api/v1/ask
InitAnswer == ChunkIdle /\ AnswerInit /\ IndexIdle /\ LazyIdle /\ BuildIdle

NextAnswer == AnswerNext /\ UNCHANGED <<chunkVars, indexVars, lazyVars, buildVars>>

SpecAnswer == InitAnswer /\ [][NextAnswer]_vars

\* operations on the Pinecone indexes
InitIndex == ChunkIdle /\ AnswerIdle /\ IndexInit /\ LazyIdle /\ BuildIdle

NextIndex == IndexNext /\ UNCHANGED <<chunkVars, answerVars, lazyVars, buildVars>>

SpecIndex == InitIndex /\ [][NextIndex]_vars

\* concurrent requests to /api/v1/ask on a fresh process
InitLazy == ChunkIdle /\ AnswerIdle /\ IndexIdle /\ LazyInit /\ BuildIdle

NextLazy == LazyNext /\ UNCHANGED <<chunkVars, answerVars, indexVars, buildVars>>

SpecLazy == InitLazy /\ [][NextLazy]_vars

\* chunk_by_articles on one document with indented markers and page numbers
InitLayout == LayoutInit /\ AnswerIdle /\ IndexIdle /\ LazyIdle /\ BuildIdle

SpecLayout == InitLayout /\ [][Next]_vars

\* chunk_by_articles on one page of subsection headers and articles
InitContext == ContextInit /\ AnswerIdle /\ IndexIdle /\ LazyIdle /\ BuildIdle

SpecContext == InitContext /\ [][Next]_vars

\* one run of the build command, then the API's first load of the index
InitBuild == ChunkIdle /\ AnswerIdle /\ LazyIdle /\ BuildInit

NextBuild == BuildNext /\ UNCHANGED <<chunkVars, answerVars, lazyVars>>

SpecBuild == InitBuild /\ [][NextBuild]_vars

-----------------------------------------------------------------------------
(* Properties of the chunker *)

NumPairs(p) == (Len(p) - 1) \div 2

HasToken(text, t) == \E k \in 1..Len(text) : text[k] = t

\* a line of `text` starts with `prefix`
StartsLine(text, prefix) ==
    \E p \in 1..Len(text) :
        /\ p + Len(prefix) - 1 <= Len(text)
        /\ SubSeq(text, p, p + Len(prefix) - 1) = prefix
        /\ AtLineStart(text, p)

\* The last section header of the text before the first article and of the
\* bodies of the articles 1..k, found by searching backwards from body k.
RECURSIVE LastSectionUpTo(_, _)
LastSectionUpTo(p, k) ==
    IF k < 0 THEN NoContext
    ELSE LET m == ScanSections(p[2 * k + 1], 1, NoContext)
         IN  IF m # NoContext THEN m ELSE LastSectionUpTo(p, k - 1)

RECURSIVE LastSubsectionUpTo(_, _)
LastSubsectionUpTo(p, k) ==
    IF k < 0 THEN NoContext
    ELSE LET m == ScanSubsections(p[2 * k + 1], 1, NoContext)
         IN  IF m # NoContext THEN m ELSE LastSubsectionUpTo(p, k - 1)

\* the composed and cleaned content of the k-th (boundary, body) pair
PairContent(k) ==
    ChunkContent(include_section_context,
                 LastSectionUpTo(parts, k), LastSubsectionUpTo(parts, k),
                 parts[2 * k], parts[2 * k + 1])

\* the numbers of the line-starting "Article k" markers of a text, in order
RECURSIVE MarkerNumbersFrom(_, _)
MarkerNumbersFrom(text, p) ==
    IF p > Len(text) THEN <<>>
    ELSE LET w == SkipWs(text, p + 1)
         IN  IF /\ AtLineStart(text, p) /\ text[p] = "Article"
                /\ w > p + 1 /\ w <= Len(text) /\ text[w] \in DigitTokens
             THEN <<IntOf(text[w])>> \o MarkerNumbersFrom(text, p + 1)
             ELSE MarkerNumbersFrom(text, p + 1)

MarkerNumbers(text) == MarkerNumbersFrom(text, 1)

\* every boundary is a marker in column 0 and every pair is non-trivial
WellFormed ==
    \A k \in 1..NumPairs(parts) :
        /\ parts[2 * k][1] = "Article"
        /\ TextLen(PairContent(k)) > MinContentLen

\* C1: when the text holds N line-starting "Article k:" markers with
\* non-trivial bodies, chunk_by_articles returns N chunks, in the order of
\* the markers, the i-th with the number of the i-th marker.
C1_ChunkPerMarker ==
    (pc = "done" /\ WellFormed) =>
        /\ Len(chunks) = Len(MarkerNumbers(full_text))
        /\ \A j \in 1..Len(chunks) :
              chunks[j].article_number = <<"int", MarkerNumbers(full_text)[j]>>

C1_Witness ==
    /\ pc = "done" /\ WellFormed
    /\ Len(chunks) >= 2
    /\ chunks[1].article_number # chunks[2].article_number

\* the text with every lowercase "article" replaced by an ordinary word
AsOrdinaryText(text) ==
    [k \in 1..Len(text) |-> IF text[k] = "article" THEN "element" ELSE text[k]]

BackFromOrdinary(text) ==
    [k \in 1..Len(text) |-> IF text[k] = "element" THEN "article" ELSE text[k]]

ChunkBackFromOrdinary(c) ==
    [c EXCEPT !.page_content = BackFromOrdinary(@),
              !.section_title = BackFromOrdinary(@),
              !.subsection_title = BackFromOrdinary(@)]

\* C2: a lowercase "article <digits>", inside a line or at the start of a
\* line, never creates a boundary: the parts and the chunks are those of the
\* text in which the occurrence is an ordinary word, and the occurrence
\* stays in the content of the enclosing article.
C2_LowercaseNeverSplits ==
    pc = "done" =>
        LET ordinary == AsOrdinaryText(full_text)
            split    == RegexSplit(ordinary)
            ref      == RunLoop(split, include_section_context, BaseMetadata,
                                LoopEntry(split))
        IN  /\ parts = [k \in 1..Len(split) |-> BackFromOrdinary(split[k])]
            /\ chunks = [j \in 1..Len(ref) |-> ChunkBackFromOrdinary(ref[j])]

C2_Witness ==
    /\ pc = "done"
    /\ \E j \in 1..Len(chunks) :
          LET c == chunks[j].page_content
          IN  /\ \E k \in 2..Len(c) : c[k] = "article" /\ AtLineStart(c, k)
                                       /\ k + 2 <= Len(c) /\ c[k + 2] \in DigitTokens
              /\ \E k \in 2..Len(c) : c[k] = "article" /\ ~AtLineStart(c, k)

\* C3: every chunk has cleaned content longer than 50 characters, and a
\* pair whose composed and cleaned content has 50 characters or fewer adds
\* no chunk and lets the loop go on.
C3_ShortContentDropped ==
    /\ [](\A j \in 1..Len(chunks) :
             TextLen(chunks[j].page_content) > MinContentLen)
    /\ [][(/\ pc = "loop" /\ i + 1 < Len(parts)
           /\ TextLen(PairContent((i + 1) \div 2)) <= MinContentLen)
          => (chunks' = chunks /\ i' = i + 2 /\ pc' = "loop")]_vars

\* a pair was dropped by the filter and a later one was kept
C3_Witness ==
    /\ pc = "done"
    /\ Len(chunks) >= 1
    /\ \E k \in 1..NumPairs(parts) :
          /\ TextLen(PairContent(k)) <= MinContentLen
          /\ TextLen(PairContent(k)) > 0
    /\ Len(chunks) < NumPairs(parts)

\* C4: an article marker with no text before the next boundary never yields
\* a chunk, whatever the context and the flag.
C4_BareArticleNeverEmitted ==
    [][(/\ pc = "loop" /\ i + 1 < Len(parts)
        /\ Strip(parts[i + 2]) = <<>>)
       => chunks' = chunks]_vars

\* C5: the section and subsection of a chunk are the last headers at or
\* before the end of its own body; a later step leaves the chunks already
\* there as they are.
C5_ContextOfChunk ==
    [][(pc = "loop" /\ i + 1 < Len(parts)) =>
        /\ SubSeq(chunks', 1, Len(chunks)) = chunks
        /\ Len(chunks') > Len(chunks) =>
              LET c   == chunks'[Len(chunks')]
                  k   == (i + 1) \div 2
                  sec == LastSectionUpTo(parts, k)
                  sub == LastSubsectionUpTo(parts, k)
              IN  /\ c.section_number = sec.num
                  /\ c.section_title = sec.title
                  /\ c.subsection_number = sub.num
                  /\ c.subsection_title = sub.title
                  /\ c.page_content = PairContent(k)]_vars

\* two chunks; a section header that first appears in the body of the
\* second article is on the second chunk and not on the first
C5_Witness ==
    /\ pc = "done"
    /\ Len(chunks) = 2
    /\ ScanSections(parts[5], 1, NoContext).num = <<"6">>
    /\ chunks[2].section_number = <<"6">>
    /\ chunks[1].section_number # <<"6">>

\* C6: no context line without the flag; with it, the section line is there
\* exactly when section number and title are both non-empty, and likewise,
\* independently, the subsection line.
C6_ContextLines ==
    \A j \in 1..Len(chunks) :
        LET c == chunks[j]
            withSection == /\ include_section_context
                           /\ c.section_number # <<>>
                           /\ c.section_title # <<>>
            withSubsection == /\ include_section_context
                              /\ c.subsection_number # <<>>
                              /\ c.subsection_title # <<>>
        IN  /\ HasToken(c.page_content, "[Section") <=> withSection
            /\ HasToken(c.page_content, "[Sous-section") <=> withSubsection
            /\ withSection =>
                  StartsLine(c.page_content,
                             <<"[Section", SP>> \o c.section_number \o <<":">>)
            /\ withSubsection =>
                  StartsLine(c.page_content,
                             <<"[Sous-section", SP>> \o c.subsection_number \o <<":">>)

\* a chunk with a section line and a subsection number without title
C6_Witness ==
    /\ include_section_context
    /\ \E j \in 1..Len(chunks) :
          /\ chunks[j].subsection_number # <<>>
          /\ chunks[j].subsection_title = <<>>
          /\ HasToken(chunks[j].page_content, "[Section")

-----------------------------------------------------------------------------
(* Properties of the question-answering endpoint *)

Answered == apc = "responded" /\ response.status = 200

\* C7: an answer is returned as a success only if a retrieval step
\* completed before it in the same invocation.
C7_NoAnswerWithoutRetrieval ==
    Answered => ToolMessages(messages) # {}

\* C8 as claimed: when the retrieval tool was invoked at least once, the
\* sources of the response are not empty.
C8_SourcesWhenRetrievalInvoked ==
    (Answered /\ ToolMessages(messages) # {}) => response.sources # <<>>

\* C8 amended: when a retrieval step of the invocation returned at least one
\* document, the sources of the response are not empty.
C8_SourcesWhenDocumentsRetrieved ==
    (Answered /\ \E k \in ToolMessages(messages) : messages[k].artifact # <<>>)
        => response.sources # <<>>

C8_Witness ==
    /\ Answered
    /\ Cardinality(ToolMessages(messages)) = 2
    /\ response.sources # <<>>

\* the documents of the retrieval steps before message m
RECURSIVE RetrievedBefore(_, _)
RetrievedBefore(msgs, m) ==
    IF m <= 1 THEN 0
    ELSE RetrievedBefore(msgs, m - 1)
            + (IF msgs[m - 1].type = "tool" THEN Len(msgs[m - 1].artifact) ELSE 0)

\* the first position of each element of a sequence
FirstSeen(seq) ==
    {k \in 1..Len(seq) : \A j \in 1..(k - 1) : seq[j] # seq[k]}

\* C9 as claimed: every retrieved document is in sources, in the order of
\* the retrieval steps and of the ranks within a step, and a document
\* returned by several steps is there once.
C9_SourcesUnionFirstSeen ==
    Answered =>
        /\ \A m \in ToolMessages(messages) : \A r \in 1..Len(messages[m].artifact) :
              \E k \in 1..Len(response.sources) :
                  response.sources[k] = SourceDocument(messages[m].artifact[r])
        /\ FirstSeen(response.sources) = 1..Len(response.sources)

\* C9 amended: sources is the concatenation of the document lists of the
\* retrieval steps, in the order of the steps and of the ranks, so a
\* document returned by n steps is there n times.
C9_SourcesConcatenation ==
    Answered =>
        /\ Len(response.sources) = RetrievedBefore(messages, Len(messages) + 1)
        /\ \A m \in ToolMessages(messages) : \A r \in 1..Len(messages[m].artifact) :
              response.sources[RetrievedBefore(messages, m) + r]
                  = SourceDocument(messages[m].artifact[r])

\* two retrieval steps returned the same document
C9_Witness ==
    /\ Answered
    /\ \E m1, m2 \in ToolMessages(messages) :
          /\ m1 < m2
          /\ \E r1 \in 1..Len(messages[m1].artifact) :
             \E r2 \in 1..Len(messages[m2].artifact) :
                /\ messages[m1].artifact[r1] = messages[m2].artifact[r2]
                /\ r1 # r2
    /\ Len(response.sources) = 4

\* C13: once an exception has been raised in the try block of ask_question,
\* the only response of the request is the 500 error whose detail carries the
\* message of that exception; it has no answer field.
C13_ExceptionGives500 ==
    /\ exception # <<>> => apc \in {"raised", "responded"}
    /\ apc = "raised" => response = NoValue
    /\ (exception # <<>> /\ apc = "responded") =>
          /\ response.status = 500
          /\ response.detail =
                <<"Erreur lors du traitement de la question", exception>>
          /\ "answer" \notin DOMAIN response

\* the agent had written its answer when building the response raised
C13_Witness ==
    /\ apc = "responded"
    /\ exception = <<"error in", "invoked">>
    /\ get_last_message(messages) = "answer"
    /\ response.status = 500

\* C15 as claimed: the thread_id of the response is the one given to the
\* agent; it is the request's thread_id whenever the request holds one, and a
\* new identifier when the request holds none.
C15_ThreadIdOfRequest ==
    Answered =>
        /\ response.thread_id = config
        /\ request.thread_id # NoValue => response.thread_id = request.thread_id
        /\ request.thread_id = NoValue => response.thread_id \in Uuids

\* C15 amended: the thread_id of the response is the one given to the agent;
\* it is the request's thread_id when that is a non-empty string, and a new
\* identifier when the request holds none or the empty string.
C15_ThreadIdOfRequestUnlessEmpty ==
    Answered =>
        /\ response.thread_id = config
        /\ request.thread_id \notin {NoValue, ""} =>
              response.thread_id = request.thread_id
        /\ request.thread_id \in {NoValue, ""} => response.thread_id \in Uuids

\* a request with an empty thread_id was answered under a new identifier
C15_Witness ==
    /\ Answered
    /\ request.thread_id = ""
    /\ response.thread_id \in Uuids
    /\ config = response.thread_id

-----------------------------------------------------------------------------
(* Properties of the Pinecone indexes *)

\* what the step printed
Printed(old, new) == SubSeq(new, Len(old) + 1, Len(new))

\* C10: pc.create_index is called only while the index does not exist, so at
\* most once as long as nobody deletes the index; a call of
\* create_index_if_not_exists while the index exists reports "already
\* exists" and creates, deletes and changes nothing.
C10_EnsureIndexIdempotent ==
    /\ [](\A n \in IndexNames : create_calls[n] <= delete_calls[n] + 1)
    /\ [][\A n \in IndexNames :
            /\ create_calls'[n] > create_calls[n] =>
                  (n \notin existing /\ n \in existing'
                     /\ Printed(log, log') = << <<"created", n>> >>)
            /\ Printed(log, log') = << <<"already exists", n>> >> =>
                  (n \in existing
                     /\ UNCHANGED <<existing, vectors, create_calls, delete_calls>>)
            /\ (n \in existing /\ create_index_if_not_exists(n)) =>
                  Printed(log, log') = << <<"already exists", n>> >>
         ]_vars

\* the index holds vectors and create_index_if_not_exists has just reported
\* that it exists, after it had created it
C10_Witness ==
    /\ Len(log) >= 3
    /\ log[1] = <<"created", "estin-regulations">>
    /\ log[Len(log)] = <<"already exists", "estin-regulations">>
    /\ vectors["estin-regulations"] # {}
    /\ create_calls["estin-regulations"] = 1

-----------------------------------------------------------------------------
(* Properties of the shared agent *)

-----------------------------------------------------------------------------
(* Properties of the index build command *)

Said(line) == \E k \in 1..Len(out) : out[k] = line

\* C12: the build command exits with code 0 exactly when no step raised; when
\* a step raised it prints an error message and exits with a non-zero code,
\* and "completed successfully" is never printed after a failed step.
C12_ExitCodeReflectsSteps ==
    /\ bpc = "exited" => (exit_code = <<0>> <=> error = NoValue)
    /\ exit_code = <<0>> => Said("Index build completed successfully!")
    /\ (bpc = "exited" /\ error # NoValue) =>
          /\ exit_code # <<>>
          /\ exit_code # <<0>>
          /\ Said("Error")
    /\ error # NoValue => ~Said("Index build completed successfully!")
    /\ bpc \in {"report", "returned"} => error = NoValue

\* population failed on an embedding call and the command has exited
C12_Witness ==
    /\ bpc = "exited"
    /\ error = "populate"
    /\ exit_code = <<1>>
    /\ Said("Error")

\* C14: when an embedding call fails during the build, create_vector_store
\* returns no handle, the command aborts with a failure, and the index the
\* failed build leaves behind is never loaded as a usable index.
C14_FailedBuildNeverUsed ==
    error = "populate" =>
        /\ vector_store = NoValue
        /\ bpc \in {"raised", "exited"}
        /\ exit_code # <<0>>
        /\ ~Said("Index build completed successfully!")
        /\ served = <<>>

\* C17: pc.delete_index is called only in a build with --reset and only after
\* Steps 1 to 3 have succeeded; a build without --reset never deletes; and as
\* long as the build is in Steps 1 to 3, or has failed in one of them, the
\* indexes and their vectors stay as they were.
C17_DeleteOnlyOnReset ==
    /\ [](~reset => \A n \in IndexNames : delete_calls[n] = 0)
    /\ [][delete_calls' # delete_calls =>
            /\ reset
            /\ Said("Loaded pages")
            /\ Said("Created article chunks")
            /\ Said("Initialized embeddings model")
            /\ error = NoValue]_vars
    /\ [][(\/ bpc \in {"start", "chunk", "embed"}
           \/ error \in {"source", "load", "chunk", "embed"}) =>
            UNCHANGED <<existing, vectors>>]_vars

\* a reset build has just deleted the existing index
C17_Witness ==
    /\ reset
    /\ delete_calls[IndexName] = 1
    /\ log = << <<"deleted", IndexName>> >>
    /\ IndexName \notin existing
    /\ bpc = "create"

-----------------------------------------------------------------------------
(* Properties of the chunker on laid-out pages *)

\* the digits of a boundary
MarkerDigits(header) ==
    header[CHOOSE k \in 1..Len(header) :
              /\ header[k] \in DigitTokens
              /\ \A j \in 1..(k - 1) : header[j] \notin DigitTokens]

\* C16: the article_number of an emitted chunk is the integer written after
\* "Article" in its boundary, also when blanks precede "Article" on the
\* line; "?" is never given to a boundary that holds digits.
C16_ArticleNumberOfMarker ==
    [][Len(chunks') > Len(chunks) =>
          chunks'[Len(chunks')].article_number
              = <<"int", IntOf(MarkerDigits(parts[i + 1]))>>]_vars

\* three newlines in a row
HasNewlineRun(text) ==
    \E k \in 1..(Len(text) - 2) :
        text[k] = NL /\ text[k + 1] = NL /\ text[k + 2] = NL

\* C18: the content of an emitted chunk holds no run of three or more
\* newlines, whatever page markers and digit-only lines the cleaning removed.
C18_NoNewlineRun ==
    \A j \in 1..Len(chunks) : ~HasNewlineRun(chunks[j].page_content)

-----------------------------------------------------------------------------
(* Properties of the parse context *)

HasSectionHeader(segment) == ScanSections(segment, 1, NoContext) # NoContext

HasSubsectionHeader(segment) == ScanSubsections(segment, 1, NoContext) # NoContext

\* C19: a body with section headers and no subsection header changes the
\* section and leaves the subsection as it is, and the other way round; what
\* is scanned last wins; a section or subsection number or title that is
\* not empty never becomes empty.
C19_ContextLastSeenWins ==
    /\ [][(pc = "loop" /\ i + 1 < Len(parts)) =>
            LET body == parts[i + 2]
            IN  /\ ~HasSubsectionHeader(body) =>
                      UNCHANGED <<current_subsection_num, current_subsection>>
                /\ ~HasSectionHeader(body) =>
                      UNCHANGED <<current_section_num, current_section>>
                /\ HasSectionHeader(body) =>
                      /\ current_section_num'
                            = ScanSections(body, 1, NoContext).num
                      /\ current_section'
                            = ScanSections(body, 1, NoContext).title
                /\ HasSubsectionHeader(body) =>
                      /\ current_subsection_num'
                            = ScanSubsections(body, 1, NoContext).num
                      /\ current_subsection'
                            = ScanSubsections(body, 1, NoContext).title]_vars
    /\ [][/\ current_section_num # <<>> => current_section_num' # <<>>
          /\ current_section # <<>> => current_section' # <<>>
          /\ current_subsection_num # <<>> => current_subsection_num' # <<>>
          /\ current_subsection # <<>> => current_subsection' # <<>>]_vars

\* C20: an article dropped by the length filter adds no chunk but its body
\* is scanned like any other: after the step the context is the last header
\* of all the bodies so far, dropped or not, and that is the context of the
\* chunks emitted later.
C20_DroppedArticleAdvancesContext ==
    /\ [][(/\ pc = "loop" /\ i + 1 < Len(parts)
           /\ StartsWithArticle(parts[i + 1])
           /\ ~KeepChunk(PairContent((i + 1) \div 2))) =>
            LET k == (i + 1) \div 2
            IN  /\ chunks' = chunks
                /\ current_section_num' = LastSectionUpTo(parts, k).num
                /\ current_section' = LastSectionUpTo(parts, k).title
                /\ current_subsection_num' = LastSubsectionUpTo(parts, k).num
                /\ current_subsection' = LastSubsectionUpTo(parts, k).title]_vars
    /\ [][Len(chunks') > Len(chunks) =>
            LET c == chunks'[Len(chunks')]
                k == (i + 1) \div 2
            IN  /\ c.section_number = LastSectionUpTo(parts, k).num
                /\ c.subsection_number = LastSubsectionUpTo(parts, k).num]_vars

\* the first article was dropped, the section header of its body is the
\* section of the chunk of the second
C20_Witness ==
    /\ pc = "done"
    /\ NumPairs(parts) = 2
    /\ ~KeepChunk(PairContent(1))
    /\ ~HasSectionHeader(parts[1])
    /\ HasSectionHeader(parts[3])
    /\ ~HasSectionHeader(parts[5])
    /\ Len(chunks) = 1
    /\ chunks[1].section_number = ScanSections(parts[3], 1, NoContext).num

====
